---- MODULE Spec2Model ----
(***************************************************************************)
(* MediSearch (src/app.py): a Streamlit page over a MySQL database with    *)
(* the tables medicines, users and purchase_history.  The model covers the *)
(* cached connection (get_db_connection), execute_query, the four query    *)
(* functions and the steps of main that call them.                         *)
(*                                                                         *)
(* Text is a sequence of one-character strings, so that str.lower(), the   *)
(* "%...%" pattern building and SQL LIKE are computed character by         *)
(* character.  A table (pandas DataFrame) is a record                      *)
(*   [cols |-> does it have columns, rows |-> sequence of row records].    *)
(* The medicines columns price and reviews are never read by the logic     *)
(* modelled here and are left out of the rows.                             *)
(***************************************************************************)
EXTENDS Integers, Sequences, FiniteSets, TLC

VARIABLES
    medicines,   \* table medicines: sequence of rows, the id is the position
    purchases,   \* table purchase_history: sequence of rows
    serverUp,    \* the MySQL server accepts connections
    cache,       \* st.cache_resource slot of get_db_connection: "unset", "none", "conn"
    connAlive,   \* the cached connection object is connected (is_connected())
    pc,          \* position of the current script run of main
    sqlIssued,   \* some cursor.execute was reached in the current run
    dfMedicines, \* main's df_medicines of the current run
    history,     \* main's history_to_use of the current run (sequence of names)
    execLog,     \* the execute_query calls of the latest step, in order
    out          \* what the latest step returned or displayed

vars == <<medicines, purchases, serverUp, cache, connAlive, pc, sqlIssued,
          dfMedicines, history, execLog, out>>

----------------------------------------------------------------------------
(* Bounds of the model *)

MaxMeds == 2          \* catalog rows in the search specification
MaxQueryLen == 2      \* characters of a search text
MaxRating == 2        \* ratings are 1..MaxRating
MaxLoadMeds == 3      \* catalog rows in the load specification
MaxPurchases == 3     \* purchase_history rows in the history specification
MaxRecMeds == 6       \* catalog rows in the recommendation specification

----------------------------------------------------------------------------
(* Text *)

BackSlash == "\\"

\* str.lower() on one character (the letters the model uses)
LowerChar(c) ==
    CASE c = "A" -> "a"
      [] c = "B" -> "b"
      [] c = "M" -> "m"
      [] c = "O" -> "o"
      [] c = "S" -> "s"
      [] OTHER -> c

\* str.lower()
Lower(s) == [i \in 1..Len(s) |-> LowerChar(s[i])]

\* str.replace(" ", "_")
ReplaceSpace(s) == [i \in 1..Len(s) |-> IF s[i] = " " THEN "_" ELSE s[i]]

\* f"%{query.lower()}%"
QueryPattern(query) == <<"%">> \o Lower(query) \o <<"%">>

\* character comparison of the column collation (MySQL default: case-insensitive)
CharEq(a, b) == LowerChar(a) = LowerChar(b)

\* SQL:  text LIKE pat   (% any run, _ any one character, \ escapes the next)
RECURSIVE Like(_, _)
Like(text, pat) ==
    IF pat = <<>> THEN text = <<>>
    ELSE IF Head(pat) = "%"
        THEN Like(text, Tail(pat)) \/ (text # <<>> /\ Like(Tail(text), pat))
    ELSE IF Head(pat) = "_"
        THEN text # <<>> /\ Like(Tail(text), Tail(pat))
    ELSE IF Head(pat) = BackSlash /\ Len(pat) > 1
        THEN /\ text # <<>>
             /\ CharEq(Head(text), pat[2])
             /\ Like(Tail(text), Tail(Tail(pat)))
    ELSE /\ text # <<>>
         /\ CharEq(Head(text), Head(pat))
         /\ Like(Tail(text), Tail(pat))

\* all texts of length lo..hi over the characters cs
StringsOver(cs, lo, hi) == UNION {[1..n -> cs] : n \in lo..hi}

----------------------------------------------------------------------------
(* Sequences and orderings *)

Range(s) == {s[i] : i \in 1..Len(s)}

\* a sort key is a pair <<k1, k2>>; ORDER BY k1 DESC, k2 DESC puts a before b
KeyBefore(a, b) == a[1] > b[1] \/ (a[1] = b[1] /\ a[2] > b[2])

\* SQL ORDER BY k1 DESC, k2 DESC LIMIT n over the rows S with key[x] the sort
\* key of x: every listing the server may return; rows that tie come in any order
RECURSIVE OrderDescLimit(_, _, _)
OrderDescLimit(S, key, n) ==
    IF S = {} \/ n = 0 THEN {<<>>}
    ELSE LET tops == {x \in S : \A y \in S : ~KeyBefore(key[y], key[x])} IN
         UNION {{<<m>> \o t : t \in OrderDescLimit(S \ {m}, key, n - 1)} : m \in tops}

\* ORDER BY without LIMIT
OrderDesc(S, key) == OrderDescLimit(S, key, Cardinality(S))

\* SQL LIMIT n / DataFrame.head(n)
FirstN(s, n) == SubSeq(s, 1, IF Len(s) < n THEN Len(s) ELSE n)

----------------------------------------------------------------------------
(* Tables *)

\* pd.DataFrame(): no columns, no rows
EmptyDF == [cols |-> FALSE, rows |-> <<>>]

\* pd.DataFrame(results, columns=columns) of an answered query
DataFrame(rows) == [cols |-> TRUE, rows |-> rows]

\* df.empty
IsEmpty(df) == df.rows = <<>>

MedIds == 1..Len(medicines)

\* the ids of the table users (its rows never change)
UserIds == {1, 2}

\* the answer to "SELECT id, name, profile FROM users ORDER BY name"
UsersSql == [i \in 1..Cardinality(UserIds) |-> [id |-> i]]

----------------------------------------------------------------------------
(* get_db_connection and execute_query *)

\* what can happen to the connection while one execute_query call runs
Events == {"ok", "drop_ping", "down_ping", "err_cursor", "err_execute", "err_fetch"}

\* the events that can make a difference to a call that finds the connection in
\* this state: none when the cached value cannot give a connected connection
EventsFor(slot, alive) ==
    IF slot = "none" \/ (slot = "conn" /\ ~alive) THEN {"ok"} ELSE Events

\* get_db_connection under st.cache_resource: the value the call returns, given
\* the cache slot and whether a fresh connect() would yield a connected
\* connection ("none" when connect raised Error, and when it returned a
\* connection that is not connected and the function fell off its end)
GetDbConnection(slot, connects) ==
    IF slot # "unset" THEN slot
    ELSE IF connects THEN "conn" ELSE "none"

\* the outcome of one execute_query call: the returned table, the message shown,
\* where the database raised ("none" if nowhere), whether an exception leaves
\* the function, whether cursor.execute was reached, and the cache slot, the
\* connection and the server afterwards
Outcome(table, msg, fault, raised, alive, issued, slot, up) ==
    [table |-> table, msg |-> msg, fault |-> fault, raised |-> raised,
     alive |-> alive, issued |-> issued, slot |-> slot, up |-> up]

\* lines 72-78: cursor(), execute(), fetchall(), DataFrame(results)
CursorPhase(slot, up, ev, rows) ==
    CASE ev = "err_cursor" ->     \* connection lost before cursor()
           Outcome(EmptyDF, "none", "cursor", TRUE, FALSE, FALSE, slot, up)
      [] ev = "err_execute" ->    \* the server rejects the statement
           Outcome(EmptyDF, "none", "execute", TRUE, TRUE, TRUE, slot, up)
      [] ev = "err_fetch" ->      \* connection lost while fetching
           Outcome(EmptyDF, "none", "fetch", TRUE, FALSE, TRUE, slot, up)
      [] OTHER ->
           Outcome(DataFrame(rows), "none", "none", FALSE, TRUE, TRUE, slot, up)

\* the try block of execute_query (lines 63-78), connection being the cached
\* object: slot/alive/up are the connection state at the call, ev what happens
\* to the connection during the call, rows what the server would answer
TryBlock(slot, alive, up, ev, rows) ==
    IF slot = "conn" /\ alive
    THEN \* connection.ping(reconnect=True, attempts=3, delay=1)
         IF ev = "down_ping"      \* the server went away after is_connected()
         THEN Outcome(EmptyDF, "none", "ping", TRUE, FALSE, FALSE, slot, FALSE)
         ELSE CursorPhase(slot, up, ev, rows)    \* "drop_ping": ping reconnects
    ELSE \* "Connection not established. Reconnecting...": get_db_connection()
         LET got == GetDbConnection(slot, up)
             connected == got = "conn" /\ (IF slot = "unset" THEN TRUE ELSE alive)
         IN  IF ~connected
             THEN Outcome(EmptyDF, "reconnect_failed", "none", FALSE, alive, FALSE, got, up)
             ELSE CursorPhase(got, up, ev, rows)

\* what the call found: the is_connected() answer of line 63 and whether the
\* server accepted connections then
CallState(slot, alive, up) == [connected |-> slot = "conn" /\ alive, reachable |-> up]

\* execute_query with the except clause left out
ExecuteQueryUncaught(slot, alive, up, ev, rows) ==
    TryBlock(slot, alive, up, ev, rows) @@ CallState(slot, alive, up)

\* execute_query(connection, query, params): the try block, and
\* except Error: st.error("Query Error ..."); return pd.DataFrame()
ExecuteQuery(slot, alive, up, ev, rows) ==
    LET r == TryBlock(slot, alive, up, ev, rows) IN
    (IF r.raised
     THEN [r EXCEPT !.table = EmptyDF, !.msg = "query_error", !.raised = FALSE]
     ELSE r) @@ CallState(slot, alive, up)

\* the connection state after the execute_query calls rs of one step
AfterCalls(rs) ==
    /\ connAlive' = rs[Len(rs)].alive
    /\ cache' = rs[Len(rs)].slot
    /\ serverUp' = rs[Len(rs)].up
    /\ sqlIssued' = (sqlIssued \/ \E i \in 1..Len(rs) : rs[i].issued)
    /\ execLog' = rs

----------------------------------------------------------------------------
(* search_medicines_db *)

\* CASE ... END as relevance_score of the row with this id
RelevanceScore(id, pat, search_type) ==
    IF search_type = "medicine"
    THEN IF Like(medicines[id].name, pat) THEN 2 ELSE 0
    ELSE IF search_type = "symptom"
    THEN IF Like(medicines[id].treats, pat) THEN 1 ELSE 0
    ELSE IF Like(medicines[id].name, pat) THEN 2
         ELSE IF Like(medicines[id].treats, pat) THEN 1 ELSE 0

\* the WHERE clause of the three statements
SearchWhere(id, pat, search_type) ==
    IF search_type = "medicine" THEN Like(medicines[id].name, pat)
    ELSE IF search_type = "symptom" THEN Like(medicines[id].treats, pat)
    ELSE Like(medicines[id].name, pat) \/ Like(medicines[id].treats, pat)

SearchRow(id, pat, search_type) ==
    [id |-> id, name |-> medicines[id].name, type |-> medicines[id].type,
     treats |-> medicines[id].treats, rating |-> medicines[id].rating,
     relevance_score |-> RelevanceScore(id, pat, search_type)]

\* the answers the server can give to the search statement:
\* ORDER BY relevance_score DESC, rating DESC
SearchSql(pat, search_type) ==
    LET hits == {id \in MedIds : SearchWhere(id, pat, search_type)}
        key == [id \in hits |->
                  <<RelevanceScore(id, pat, search_type), medicines[id].rating>>]
    IN  {[i \in 1..Len(f) |-> SearchRow(f[i], pat, search_type)] : f \in OrderDesc(hits, key)}

\* search_medicines_db(connection, query, search_type)
SearchMedicinesDb(query, search_type, ev) ==
    \E rows \in SearchSql(QueryPattern(query), search_type) :
    \E r \in {ExecuteQuery(cache, connAlive, serverUp, ev, rows)} :
        /\ out' = [op |-> "search", query |-> query, search_type |-> search_type,
                   ui |-> <<>>, table |-> r.table]
        /\ AfterCalls(<<r>>)
        /\ UNCHANGED <<medicines, purchases, dfMedicines, history>>

\* the entries of st.selectbox("Search Type:", ...)
SearchTypeChoices ==
    { <<"B","o","t","h">>,
      <<"M","e","d","i","c","i","n","e"," ","O","n","l","y">>,
      <<"S","y","m","p","t","o","m","s"," ","O","n","l","y">> }

\* the literals search_medicines_db compares search_type with
TypeName(t) ==
    IF t = <<"b","o","t","h">> THEN "both"
    ELSE IF t = <<"m","e","d","i","c","i","n","e">> THEN "medicine"
    ELSE IF t = <<"s","y","m","p","t","o","m">> THEN "symptom"
    ELSE "other"

\* main, tab1 with a search text: search_type.lower().replace(" ", "_") is passed on
SearchTab(choice, query, ev) ==
    LET search_type == TypeName(ReplaceSpace(Lower(choice))) IN
    \E rows \in SearchSql(QueryPattern(query), search_type) :
    \E r \in {ExecuteQuery(cache, connAlive, serverUp, ev, rows)} :
        /\ out' = [op |-> "search", query |-> query, search_type |-> search_type,
                   ui |-> choice, table |-> r.table]
        /\ AfterCalls(<<r>>)
        /\ UNCHANGED <<medicines, purchases, dfMedicines, history>>

----------------------------------------------------------------------------
(* load_medicines_from_db and get_user_history *)

\* (SELECT COUNT(DISTINCT ph.id) FROM purchase_history ph WHERE ph.medicine_id = m.id)
PurchaseCount(id) ==
    Cardinality({k \in 1..Len(purchases) : purchases[k].medicine_id = id})

LoadRow(id) ==
    [id |-> id, name |-> medicines[id].name, type |-> medicines[id].type,
     treats |-> medicines[id].treats, rating |-> medicines[id].rating,
     purchase_count |-> PurchaseCount(id)]

\* SELECT m.*, ... FROM medicines m GROUP BY m.id, ... ORDER BY m.rating DESC
LoadSql ==
    LET key == [id \in MedIds |-> <<medicines[id].rating, 0>>] IN
    {[i \in 1..Len(f) |-> LoadRow(f[i])] : f \in OrderDesc(MedIds, key)}

\* drop_duplicates with keep='last'
DropDuplicatesKeepLast(rows) ==
    LET keep == {i \in 1..Len(rows) : \A j \in (i + 1)..Len(rows) : rows[j].name # rows[i].name}
        F[i \in 0..Len(rows)] ==
            IF i = 0 THEN <<>>
            ELSE IF i \in keep THEN Append(F[i - 1], rows[i]) ELSE F[i - 1]
    IN  F[Len(rows)]

\* DataFrame.drop_duplicates('name', keep='first'): the rows whose name did not
\* occur in an earlier row, in their order
DropDuplicates(rows) ==
    LET keep == {i \in 1..Len(rows) : \A j \in 1..(i - 1) : rows[j].name # rows[i].name}
        F[i \in 0..Len(rows)] ==
            IF i = 0 THEN <<>>
            ELSE IF i \in keep THEN Append(F[i - 1], rows[i]) ELSE F[i - 1]
    IN  F[Len(rows)]

\* load_medicines_from_db(connection); main keeps the result as df_medicines
LoadMedicinesFromDb(ev) ==
    \E rows \in LoadSql :
    \E r \in {ExecuteQuery(cache, connAlive, serverUp, ev, rows)} :
    \E df \in {IF ~IsEmpty(r.table)
                THEN [r.table EXCEPT !.rows = DropDuplicates(r.table.rows)]
                ELSE r.table} :
        /\ out' = [op |-> "load", table |-> df]
        /\ dfMedicines' = df
        /\ AfterCalls(<<r>>)
        /\ UNCHANGED <<medicines, purchases, history>>

\* the history statement with the WHERE ph.user_id = %s left out
HistoryGroupAnyUser(user_id, id) ==
    {k \in 1..Len(purchases) : purchases[k].medicine_id = id}

\* the purchase rows that make up one GROUP BY m.id group of the history
\* statement: JOIN medicines m ON ph.medicine_id = m.id WHERE ph.user_id = %s
HistoryGroup(user_id, id) ==
    {k \in 1..Len(purchases) :
        purchases[k].user_id = user_id /\ purchases[k].medicine_id = id}

RECURSIVE SumQuantity(_)
SumQuantity(ks) ==
    IF ks = {} THEN 0
    ELSE LET k == CHOOSE x \in ks : TRUE IN purchases[k].quantity + SumQuantity(ks \ {k})

MaxDate(ks) ==
    CHOOSE d \in {purchases[k].purchase_date : k \in ks} :
        \A k \in ks : purchases[k].purchase_date <= d

\* one result row of the history statement; the statement selects no id, the
\* field id is kept here to tell the rows of the model apart
HistoryRow(user_id, id) ==
    [id |-> id, name |-> medicines[id].name, type |-> medicines[id].type,
     rating |-> medicines[id].rating,
     total_quantity |-> SumQuantity(HistoryGroup(user_id, id)),
     latest_purchase_date |-> MaxDate(HistoryGroup(user_id, id))]

\* SELECT ... SUM(ph.quantity), MAX(ph.purchase_date) ... GROUP BY m.id, ...
\* ORDER BY latest_purchase_date DESC
HistorySql(user_id) ==
    LET ids == {id \in MedIds : HistoryGroup(user_id, id) # {}}
        key == [id \in ids |-> <<MaxDate(HistoryGroup(user_id, id)), 0>>]
    IN  {[i \in 1..Len(f) |-> HistoryRow(user_id, f[i])] : f \in OrderDesc(ids, key)}

\* get_user_history(connection, user_id)
GetUserHistory(user_id, ev) ==
    \E rows \in HistorySql(user_id) :
    \E r \in {ExecuteQuery(cache, connAlive, serverUp, ev, rows)} :
        /\ out' = [op |-> "history", user_id |-> user_id, table |-> r.table]
        /\ AfterCalls(<<r>>)
        /\ UNCHANGED <<medicines, purchases, dfMedicines, history>>

----------------------------------------------------------------------------
(* generate_recommendations_db *)

CategoryLimit == 3
SymptomLimit == 3
PopularLimit == 2
TopRecs == 4

\* SQL: name IN (%s, ...) with the history names as parameters
NameIn(name, names) == \E i \in 1..Len(names) : Lower(name) = Lower(names[i])

\* SUBSTRING_INDEX(treats, ',', 1): the text before the first comma
RECURSIVE FirstSymptom(_)
FirstSymptom(treats) ==
    IF treats = <<>> \/ Head(treats) = "," THEN <<>>
    ELSE <<Head(treats)>> \o FirstSymptom(Tail(treats))

\* JOIN medicines m2 ON (m2.treats LIKE CONCAT('%', SUBSTRING_INDEX(m1.treats, ',', 1), '%')
\*                       OR m1.treats LIKE CONCAT('%', SUBSTRING_INDEX(m2.treats, ',', 1), '%'))
SymptomJoin(m1, m2) ==
    \/ Like(medicines[m2].treats, <<"%">> \o FirstSymptom(medicines[m1].treats) \o <<"%">>)
    \/ Like(medicines[m1].treats, <<"%">> \o FirstSymptom(medicines[m2].treats) \o <<"%">>)

\* category_query: SELECT DISTINCT m2.name, m2.rating, m2.type, COUNT(ph.id)
\* ... GROUP BY m2.id ... ORDER BY m2.rating DESC, popularity_score DESC LIMIT 3
CategorySql(names) ==
    LET sources(m2) == {m1 \in MedIds : /\ medicines[m1].type = medicines[m2].type
                                        /\ NameIn(medicines[m1].name, names)}
        groups == {m2 \in MedIds : sources(m2) # {} /\ ~NameIn(medicines[m2].name, names)}
        rows == {[name |-> medicines[m2].name, rating |-> medicines[m2].rating,
                  type |-> medicines[m2].type,
                  popularity |-> Cardinality(sources(m2)) * PurchaseCount(m2)] : m2 \in groups}
        key == [x \in rows |-> <<x.rating, x.popularity>>]
    IN  OrderDescLimit(rows, key, CategoryLimit)

\* symptom_query: SELECT DISTINCT m2.name, m2.rating, (SELECT COUNT(*) ...)
\* ... ORDER BY m2.rating DESC, popularity DESC LIMIT 3
SymptomSql(names) ==
    LET hits == {m2 \in MedIds :
                    /\ ~NameIn(medicines[m2].name, names)
                    /\ \E m1 \in MedIds : /\ NameIn(medicines[m1].name, names)
                                          /\ SymptomJoin(m1, m2)}
        rows == {[name |-> medicines[m2].name, rating |-> medicines[m2].rating,
                  type |-> "NaN", popularity |-> PurchaseCount(m2)] : m2 \in hits}
        key == [x \in rows |-> <<x.rating, x.popularity>>]
    IN  OrderDescLimit(rows, key, SymptomLimit)

\* popular_query: SELECT name, rating, reviews, COUNT(ph.id) ... GROUP BY m.id
\* ... ORDER BY purchase_count DESC, rating DESC LIMIT 2
PopularSql(names) ==
    LET ids == {m \in MedIds : ~NameIn(medicines[m].name, names)}
        key == [m \in ids |-> <<PurchaseCount(m), medicines[m].rating>>]
    IN  {[i \in 1..Len(f) |->
            [name |-> medicines[f[i]].name, rating |-> medicines[f[i]].rating,
             type |-> "NaN", popularity |-> PurchaseCount(f[i])]] :
         f \in OrderDescLimit(ids, key, PopularLimit)}

\* df.assign(source=...): the rows of the table, each with its source
WithSource(df, source) ==
    [i \in 1..Len(df.rows) |->
        [name |-> df.rows[i].name, rating |-> df.rows[i].rating,
         type |-> df.rows[i].type, source |-> source]]

\* sort_values('rating', ascending=False) with the sort left out
SortValuesUnsorted(rows) == rows

\* sort_values('rating', ascending=False): rating descending.  The frame has at
\* most 8 rows; below 17 items numpy's default sort is an insertion sort, and
\* pandas reverses before and after it, so rows of equal rating keep their order
RECURSIVE SortValues(_)
SortValues(rows) ==
    IF rows = <<>> THEN <<>>
    ELSE LET i == CHOOSE k \in 1..Len(rows) :
                    /\ \A j \in 1..Len(rows) : rows[j].rating <= rows[k].rating
                    /\ \A j \in 1..(k - 1) : rows[j].rating < rows[k].rating
         IN  <<rows[i]>> \o SortValues(SubSeq(rows, 1, i - 1) \o SubSeq(rows, i + 1, Len(rows)))

\* lines 207-230 of generate_recommendations_db: concat, drop_duplicates('name'),
\* sort_values('rating'), head(4).  The concatenation of three tables without
\* columns has no column 'rating' and sort_values raises KeyError.
\* The result is [raised, top].
Combine(category_recs, symptom_recs, popular_recs) ==
    LET all_recs == WithSource(category_recs, "category")
                    \o WithSource(symptom_recs, "symptom")
                    \o WithSource(popular_recs, "popular")
        has_columns == category_recs.cols \/ symptom_recs.cols \/ popular_recs.cols
    IN  IF ~has_columns
        THEN [raised |-> TRUE, top |-> <<>>]
        ELSE [raised |-> FALSE,
              top |-> FirstN(SortValues(DropDuplicates(all_recs)), TopRecs)]

\* generate_recommendations_db(connection, user_history_names) for a non-empty
\* history, and main's display of its result (lines 387-440); to is where the
\* script run continues
GenerateRecommendationsDb(names, to) ==
    \E r1 \in {ExecuteQuery(cache, connAlive, serverUp, ev, c) :
                   ev \in EventsFor(cache, connAlive), c \in CategorySql(names)} :
    \E r2 \in {ExecuteQuery(r1.slot, r1.alive, r1.up, ev, s) :
                   ev \in EventsFor(r1.slot, r1.alive), s \in SymptomSql(names)} :
    \E r3 \in {ExecuteQuery(r2.slot, r2.alive, r2.up, ev, p) :
                   ev \in EventsFor(r2.slot, r2.alive), p \in PopularSql(names)} :
    \E res \in {Combine(r1.table, r2.table, r3.table)} :
        /\ out' = [op |-> "recommend", names |-> names, raised |-> res.raised,
                   top |-> res.top,
                   category |-> r1.table, symptom |-> r2.table, popular |-> r3.table,
                   display |-> IF res.raised THEN "exception"
                               ELSE IF res.top # <<>> THEN "recommendations"
                               ELSE "no_recommendations"]
        /\ AfterCalls(<<r1, r2, r3>>)
        /\ pc' = IF res.raised THEN "crashed" ELSE to
        /\ UNCHANGED <<medicines, purchases, dfMedicines, history>>

----------------------------------------------------------------------------
(* Specification SpecSearch: searches over every small catalog *)

SearchChars == {"a", "A", "b", "%", "_", BackSlash}
SearchQueries == StringsOver(SearchChars, 1, MaxQueryLen)

SearchNames == { <<"A","b">>, <<"a">>, <<BackSlash>>, <<"b","%">> }
SearchTreats == { <<"b">>, <<"A","_">> }

SearchRowsDomain ==
    [name : SearchNames, type : {"tablet"}, treats : SearchTreats, rating : 1..MaxRating]

Catalogs(rowset, n) == UNION {[1..k -> rowset] : k \in 0..n}

InitSearch ==
    /\ medicines \in Catalogs(SearchRowsDomain, MaxMeds)
    /\ purchases = <<>>
    /\ serverUp = TRUE
    /\ cache = "conn"
    /\ connAlive = TRUE
    /\ pc = "tab1"
    /\ sqlIssued = FALSE
    /\ dfMedicines = EmptyDF
    /\ history = <<>>
    /\ execLog = <<>>
    /\ out = [op |-> "none"]

\* a widget interaction ends the script run and starts the next one at p:
\* what the previous run displayed is gone, the cached connection stays
Rerun(p) ==
    /\ pc \in {"done", "stopped", "crashed"}
    /\ pc' = p
    /\ out' = [op |-> "none"]
    /\ execLog' = <<>>
    /\ sqlIssued' = FALSE
    /\ history' = <<>>
    /\ dfMedicines' = EmptyDF
    /\ UNCHANGED <<medicines, purchases, serverUp, cache, connAlive>>

DirectSearch ==
    /\ pc = "tab1"
    /\ \E query \in SearchQueries, search_type \in {"both", "medicine", "symptom"},
          ev \in EventsFor(cache, connAlive) :
        SearchMedicinesDb(query, search_type, ev)
    /\ pc' = "done"

UISearch ==
    /\ pc = "tab1"
    /\ \E choice \in SearchTypeChoices, query \in SearchQueries,
          ev \in EventsFor(cache, connAlive) :
        SearchTab(choice, query, ev)
    /\ pc' = "done"

RerunSearch == Rerun("tab1")

NextSearch == DirectSearch \/ UISearch \/ RerunSearch

SpecSearch == InitSearch /\ [][NextSearch]_vars

----------------------------------------------------------------------------
(* Specification SpecLoad: load_medicines_from_db over every small catalog *)

LoadNames == { <<"a">>, <<"A">>, <<"b">> }

LoadRowsDomain ==
    [name : LoadNames, type : {"tablet"}, treats : {<<"b">>}, rating : 1..MaxRating]

PurchaseRows(users, meds, quantities, dates) ==
    [user_id : users, medicine_id : meds, quantity : quantities, purchase_date : dates]

InitLoad ==
    /\ medicines \in Catalogs(LoadRowsDomain, MaxLoadMeds)
    /\ purchases \in Catalogs(PurchaseRows({1}, MedIds, {1}, {1}), 1)
    /\ serverUp = TRUE
    /\ cache = "conn"
    /\ connAlive = TRUE
    /\ pc = "load"
    /\ sqlIssued = FALSE
    /\ dfMedicines = EmptyDF
    /\ history = <<>>
    /\ execLog = <<>>
    /\ out = [op |-> "none"]

LoadCall ==
    /\ pc = "load"
    /\ \E ev \in EventsFor(cache, connAlive) : LoadMedicinesFromDb(ev)
    /\ pc' = "done"

RerunLoad == Rerun("load")

NextLoad == LoadCall \/ RerunLoad

SpecLoad == InitLoad /\ [][NextLoad]_vars

----------------------------------------------------------------------------
(* Specification SpecHistory: get_user_history over every small purchase log *)

HistoryCatalog ==
    << [name |-> <<"a">>, type |-> "tablet", treats |-> <<"b">>, rating |-> 1],
       [name |-> <<"b">>, type |-> "syrup", treats |-> <<"b">>, rating |-> 2] >>

\* two medicines that share their name
TwinCatalog ==
    << [name |-> <<"a">>, type |-> "tablet", treats |-> <<"b">>, rating |-> 1],
       [name |-> <<"a">>, type |-> "tablet", treats |-> <<"b">>, rating |-> 1] >>

Quantities == {1, 2}
Dates == {1, 2}

InitHistory ==
    /\ medicines \in {HistoryCatalog, TwinCatalog}
    /\ purchases \in Catalogs(PurchaseRows(UserIds, MedIds, Quantities, Dates), MaxPurchases)
    /\ serverUp = TRUE
    /\ cache = "conn"
    /\ connAlive = TRUE
    /\ pc = "sidebar"
    /\ sqlIssued = FALSE
    /\ dfMedicines = EmptyDF
    /\ history = <<>>
    /\ execLog = <<>>
    /\ out = [op |-> "none"]

HistoryCall ==
    /\ pc = "sidebar"
    /\ \E user_id \in UserIds, ev \in EventsFor(cache, connAlive) : GetUserHistory(user_id, ev)
    /\ pc' = "done"

RerunHistory == Rerun("sidebar")

NextHistory == HistoryCall \/ RerunHistory

SpecHistory == InitHistory /\ [][NextHistory]_vars

----------------------------------------------------------------------------
(* Specification SpecRec: generate_recommendations_db over a family of catalogs *)

\* names by position: all different, or with two medicines named "b"
RecNames == << <<"a">>, <<"b">>, <<"c">>, <<"d">>, <<"e">>, <<"f">>, <<"A">> >>
RecTwinNames == << <<"a">>, <<"b">>, <<"b">>, <<"c">>, <<"d">>, <<"e">>, <<"f">> >>
RecTypes == << "tablet", "tablet", "tablet", "tablet", "syrup", "syrup", "tablet" >>
RecTreats == << <<"x",",","y">>, <<"x">>, <<"y">>, <<"z">>, <<"y",",","x">>, <<"z">>,
                <<"x">> >>
RecRatings == {1, 2}

At(list, i) == list[((i - 1) % Len(list)) + 1]

\* the catalogs of k rows: names, types and treats by position, any ratings
RecCatalogs(k) ==
    {[i \in 1..k |-> [name |-> At(names, i), type |-> At(RecTypes, i),
                      treats |-> At(RecTreats, i), rating |-> rt[i]]] :
     names \in {RecNames, RecTwinNames}, rt \in [1..k -> RecRatings]}

\* the history lists tried: bought a; bought a and b; a name not in the catalog
RecHistories == { << <<"a">> >>, << <<"a">>, <<"b">> >>, << <<"z">> >> }

InitRec ==
    /\ medicines \in UNION {RecCatalogs(k) : k \in 1..MaxRecMeds}
    /\ purchases \in Catalogs(PurchaseRows({1}, {Len(medicines)}, {1}, {1}), 1)
    /\ serverUp = TRUE
    /\ cache = "conn"
    /\ connAlive = TRUE
    /\ pc = "tab2"
    /\ sqlIssued = FALSE
    /\ dfMedicines = EmptyDF
    /\ history = <<>>
    /\ execLog = <<>>
    /\ out = [op |-> "none"]

RecCall ==
    /\ pc = "tab2"
    /\ \E names \in RecHistories : GenerateRecommendationsDb(names, "done")

RerunRec == Rerun("tab2")

NextRec == RecCall \/ RerunRec

SpecRec == InitRec /\ [][NextRec]_vars

----------------------------------------------------------------------------
(* main: one script run, step by step *)

\* main without the test of lines 272-273
MainNeverStops(connection) == FALSE

\* if not connection: st.stop()
MainStops(connection) == connection = "none"

\* lines 271-273: connection = get_db_connection(); connects says whether a
\* fresh connect() yields a connected connection
MainConnect(connects) ==
    /\ pc = "start"
    /\ connects => serverUp
    /\ \E got \in {GetDbConnection(cache, connects)} :
          /\ cache' = got
          /\ connAlive' = IF cache = "unset" THEN connects ELSE connAlive
          /\ pc' = IF MainStops(got) THEN "stopped" ELSE "load"
          /\ out' = [op |-> "connect", got |-> got]
    /\ execLog' = <<>>
    /\ UNCHANGED <<medicines, purchases, serverUp, sqlIssued, dfMedicines, history>>

\* line 276: df_medicines = load_medicines_from_db(connection)
MainLoad ==
    /\ pc = "load"
    /\ \E ev \in EventsFor(cache, connAlive) : LoadMedicinesFromDb(ev)
    /\ pc' = "sidebar"

Names(df) == [i \in 1..Len(df.rows) |-> df.rows[i].name]

\* st.sidebar.multiselect over df_medicines['name']: nothing, one name, or all
ManualChoices(df) ==
    LET names == Names(df) IN
    {<<>>, names} \cup {<<names[i]>> : i \in 1..Len(names)}

\* lines 280-315: the users query, the selected user's history, and the manual
\* override when that history is empty
MainSidebar ==
    /\ pc = "sidebar"
    /\ \E r1 \in {ExecuteQuery(cache, connAlive, serverUp, ev, UsersSql) :
                     ev \in EventsFor(cache, connAlive)} :
          IF ~IsEmpty(r1.table)
          THEN \E selected_user_id \in UserIds :
               \E rows \in HistorySql(selected_user_id) :
               \E r2 \in {ExecuteQuery(r1.slot, r1.alive, r1.up, ev, rows) :
                             ev \in EventsFor(r1.slot, r1.alive)} :
               \E manual \in ManualChoices(dfMedicines) :
                   /\ history' = IF ~IsEmpty(r2.table) THEN Names(r2.table) ELSE manual
                   /\ IsEmpty(r2.table) \/ manual = <<>>
                   /\ out' = [op |-> "history", user_id |-> selected_user_id,
                              table |-> r2.table]
                   /\ AfterCalls(<<r1, r2>>)
          ELSE \E manual \in ManualChoices(dfMedicines) :
                   /\ history' = manual
                   /\ out' = [op |-> "no_users"]
                   /\ AfterCalls(<<r1>>)
    /\ pc' = "tab1"
    /\ UNCHANGED <<medicines, purchases, dfMedicines>>

\* the search texts typed in a full run
MainQueries == { <<"a">>, <<"%">> }

\* lines 339-341: tab1 with a search text
MainTabSearch ==
    /\ pc = "tab1"
    /\ \E choice \in SearchTypeChoices, query \in MainQueries,
          ev \in EventsFor(cache, connAlive) :
          SearchTab(choice, query, ev)
    /\ pc' = "tab2"

\* the answers to "SELECT * FROM medicines ORDER BY rating DESC LIMIT n"
TopRatedSql(n) ==
    LET key == [id \in MedIds |-> <<medicines[id].rating, 0>>] IN
    {[i \in 1..Len(f) |-> [id |-> f[i], name |-> medicines[f[i]].name,
                           rating |-> medicines[f[i]].rating]] :
     f \in OrderDescLimit(MedIds, key, n)}

FeaturedLimit == 6

\* lines 372-378: tab1 without a search text, the top rated medicines
MainTabFeatured ==
    /\ pc = "tab1"
    /\ \E rows \in TopRatedSql(FeaturedLimit) :
       \E r \in {ExecuteQuery(cache, connAlive, serverUp, ev, rows) :
                    ev \in EventsFor(cache, connAlive)} :
          /\ out' = [op |-> "featured", table |-> r.table]
          /\ AfterCalls(<<r>>)
    /\ pc' = "tab2"
    /\ UNCHANGED <<medicines, purchases, dfMedicines, history>>

\* lines 383-440: tab2 with a history
MainTabRecommend ==
    /\ pc = "tab2"
    /\ history # <<>>
    /\ GenerateRecommendationsDb(history, "cards")

\* lines 441-448: tab2 without a history
MainTabNoHistory ==
    /\ pc = "tab2"
    /\ history = <<>>
    /\ out' = [op |-> "select_a_user"]
    /\ execLog' = <<>>
    /\ pc' = "tab3"
    /\ UNCHANGED <<medicines, purchases, serverUp, cache, connAlive, sqlIssued,
                   dfMedicines, history>>

\* n execute_query calls in a row whose tables are only displayed: the possible
\* sequences of outcomes
RECURSIVE Calls(_, _, _, _)
Calls(slot, alive, up, n) ==
    IF n = 0 THEN {<<>>}
    ELSE UNION {{<<r>> \o rest : rest \in Calls(r.slot, r.alive, r.up, n - 1)} :
                r \in {ExecuteQuery(slot, alive, up, ev, <<>>) : ev \in EventsFor(slot, alive)}}

\* FIELD(name, %s, ...): the position of the first parameter equal to name
FieldIndex(name, names) ==
    CHOOSE i \in 1..Len(names) :
        /\ Lower(names[i]) = Lower(name)
        /\ \A j \in 1..(i - 1) : Lower(names[j]) # Lower(name)

\* rec_query: SELECT * FROM medicines WHERE name IN (...) ORDER BY FIELD(name, ...)
RecCardsSql(names) ==
    LET ids == {id \in MedIds : NameIn(medicines[id].name, names)}
        key == [id \in ids |-> <<0 - FieldIndex(medicines[id].name, names), 0>>]
    IN  {[i \in 1..Len(f) |-> [id |-> f[i], name |-> medicines[f[i]].name]] :
         f \in OrderDesc(ids, key)}

\* lines 389-437: the cards of the recommendations: rec_query, then one
\* user_meds query per row of rec_df
MainTabCards ==
    /\ pc = "cards"
    /\ IF out.display = "recommendations"
       THEN \E r \in {ExecuteQuery(cache, connAlive, serverUp, ev, rows) :
                         ev \in EventsFor(cache, connAlive),
                         rows \in RecCardsSql(Names([rows |-> out.top]))} :
            \E rs \in Calls(r.slot, r.alive, r.up, Len(r.table.rows)) :
                AfterCalls(<<r>> \o rs)
       ELSE UNCHANGED <<serverUp, cache, connAlive, sqlIssued, execLog>>
    /\ pc' = "tab3"
    /\ UNCHANGED <<medicines, purchases, dfMedicines, history, out>>

\* the three COUNT(*) statements and the browse statement of tab3
StatsQueries == 4

\* lines 450-505: tab3; custom says whether "Run Custom Query" was pressed
MainTabDatabase ==
    /\ pc = "tab3"
    /\ \E custom \in {0, 1} :
       \E rs \in Calls(cache, connAlive, serverUp, StatsQueries + custom) : AfterCalls(rs)
    /\ out' = [op |-> "database"]
    /\ pc' = "done"
    /\ UNCHANGED <<medicines, purchases, dfMedicines, history>>

RerunMain == Rerun("start")

\* the environment: the server stops, comes back, or the connection is lost
ServerDown ==
    /\ serverUp
    /\ serverUp' = FALSE
    /\ connAlive' = FALSE
    /\ UNCHANGED <<medicines, purchases, cache, pc, sqlIssued, dfMedicines, history,
                   execLog, out>>

ServerUp ==
    /\ ~serverUp
    /\ serverUp' = TRUE
    /\ UNCHANGED <<medicines, purchases, cache, connAlive, pc, sqlIssued, dfMedicines,
                   history, execLog, out>>

ConnectionLost ==
    /\ connAlive
    /\ connAlive' = FALSE
    /\ UNCHANGED <<medicines, purchases, serverUp, cache, pc, sqlIssued, dfMedicines,
                   history, execLog, out>>

MainCatalog ==
    << [name |-> <<"a">>, type |-> "tablet", treats |-> <<"x",",","y">>, rating |-> 2],
       [name |-> <<"b">>, type |-> "tablet", treats |-> <<"x">>, rating |-> 1],
       [name |-> <<"c">>, type |-> "syrup", treats |-> <<"y">>, rating |-> 2] >>

MainPurchases ==
    << [user_id |-> 1, medicine_id |-> 1, quantity |-> 1, purchase_date |-> 1],
       [user_id |-> 1, medicine_id |-> 2, quantity |-> 2, purchase_date |-> 2] >>

Init ==
    /\ medicines \in {<<>>, MainCatalog}
    /\ purchases \in {<<>>} \cup (IF medicines = <<>> THEN {} ELSE {MainPurchases})
    /\ serverUp \in BOOLEAN
    /\ cache = "unset"
    /\ connAlive = FALSE
    /\ pc = "start"
    /\ sqlIssued = FALSE
    /\ dfMedicines = EmptyDF
    /\ history = <<>>
    /\ execLog = <<>>
    /\ out = [op |-> "none"]

Connect == \E connects \in BOOLEAN : MainConnect(connects)

Next ==
    \/ Connect
    \/ MainLoad
    \/ MainSidebar
    \/ MainTabSearch
    \/ MainTabFeatured
    \/ MainTabRecommend
    \/ MainTabNoHistory
    \/ MainTabCards
    \/ MainTabDatabase
    \/ RerunMain
    \/ ServerDown
    \/ ServerUp
    \/ ConnectionLost

Spec == Init /\ [][Next]_vars

----------------------------------------------------------------------------
(* Claims about search (checked under SpecSearch) *)

\* text contains q, compared case-insensitively
ContainsCI(text, q) ==
    \E i \in 0..(Len(text) - Len(q)) :
        \A j \in 1..Len(q) : LowerChar(text[i + j]) = LowerChar(q[j])

\* the latest step was a search that the database answered
SearchAnswered ==
    /\ out.op = "search"
    /\ execLog[1].fault = "none"
    /\ execLog[1].msg = "none"

ReturnedIds == {out.table.rows[i].id : i \in 1..Len(out.table.rows)}

MedicineOnly == <<"M","e","d","i","c","i","n","e"," ","O","n","l","y">>
SymptomsOnly == <<"S","y","m","p","t","o","m","s"," ","O","n","l","y">>

\* C1: a search of type "both" or "medicine" returns every catalog row whose
\* name contains the search text (case-insensitively), with relevance_score 2
C1_NameMatchesReturned ==
    (SearchAnswered /\ out.ui = <<>> /\ out.search_type \in {"both", "medicine"}) =>
        \A id \in MedIds :
            ContainsCI(medicines[id].name, out.query) =>
                \E i \in 1..Len(out.table.rows) :
                    /\ out.table.rows[i].id = id
                    /\ out.table.rows[i].relevance_score = 2

\* C8: with "Medicine Only" selected every returned row matches the search text
\* in its name, with "Symptoms Only" selected in its treats field
C8_SearchTypeRestricts ==
    (out.op = "search" /\ out.ui # <<>>) =>
        \A i \in 1..Len(out.table.rows) :
            /\ out.ui = MedicineOnly =>
                   Like(out.table.rows[i].name, QueryPattern(out.query))
            /\ out.ui = SymptomsOnly =>
                   Like(out.table.rows[i].treats, QueryPattern(out.query))

\* C9: in "both" mode the result is exactly the rows whose name or treats
\* contains the search text; score 2 for a name match, 1 for a treats-only
\* match, never 0; ordered by score descending, then rating descending
C9_BothExactAndOrdered ==
    (SearchAnswered /\ out.ui = <<>> /\ out.search_type = "both") =>
        LET rows == out.table.rows IN
        /\ ReturnedIds = {id \in MedIds : \/ ContainsCI(medicines[id].name, out.query)
                                          \/ ContainsCI(medicines[id].treats, out.query)}
        /\ \A i \in 1..Len(rows) :
              rows[i].relevance_score =
                  IF ContainsCI(rows[i].name, out.query) THEN 2 ELSE 1
        /\ \A i, j \in 1..Len(rows) :
              i < j => \/ rows[i].relevance_score > rows[j].relevance_score
                       \/ /\ rows[i].relevance_score = rows[j].relevance_score
                          /\ rows[i].rating >= rows[j].rating

----------------------------------------------------------------------------
(* Claims about load_medicines_from_db (checked under SpecLoad) *)

\* the latest step called execute_query once and the database answered it
Answered == Len(execLog) = 1 /\ execLog[1].fault = "none" /\ execLog[1].msg = "none"

CatalogNames == {medicines[id].name : id \in MedIds}

BestRating(name) ==
    CHOOSE r \in {medicines[id].rating : id \in {x \in MedIds : medicines[x].name = name}} :
        \A id \in MedIds : medicines[id].name = name => medicines[id].rating <= r

\* C7: the table load_medicines_from_db returns when the database answers has
\* no two rows with the same name, is ordered by rating descending, keeps for
\* each name a row with the highest rating of that name, and holds every
\* distinct catalog name exactly once
C7_LoadDeduplicated ==
    (out.op = "load" /\ Answered) =>
        LET rows == out.table.rows IN
        /\ \A i, j \in 1..Len(rows) : i # j => rows[i].name # rows[j].name
        /\ \A i, j \in 1..Len(rows) : i < j => rows[i].rating >= rows[j].rating
        /\ \A i \in 1..Len(rows) :
              /\ rows[i].id \in MedIds
              /\ medicines[rows[i].id].name = rows[i].name
              /\ rows[i].rating = BestRating(rows[i].name)
        /\ {rows[i].name : i \in 1..Len(rows)} = CatalogNames

\* a load over a catalog in which two rows share a name and differ in rating
C7_Witness ==
    /\ out.op = "load" /\ Answered
    /\ \E a, b \in MedIds :
          /\ medicines[a].name = medicines[b].name
          /\ medicines[a].rating < medicines[b].rating
    /\ Len(out.table.rows) >= 2
    /\ Len(out.table.rows) < Len(medicines)

----------------------------------------------------------------------------
(* Claims about get_user_history (checked under SpecHistory) *)

\* quantity bought by the user of the medicine in the first n purchase rows
RECURSIVE QuantityUpTo(_, _, _)
QuantityUpTo(user_id, id, n) ==
    IF n = 0 THEN 0
    ELSE QuantityUpTo(user_id, id, n - 1) +
         (IF purchases[n].user_id = user_id /\ purchases[n].medicine_id = id
          THEN purchases[n].quantity ELSE 0)

Bought(user_id, id) ==
    \E k \in 1..Len(purchases) :
        purchases[k].user_id = user_id /\ purchases[k].medicine_id = id

\* C10: the table get_user_history returns when the database answers has exactly
\* one row per medicine the user bought and none for any other medicine;
\* total_quantity is the sum and latest_purchase_date the maximum over that
\* user's purchases of the medicine; rows are ordered by latest_purchase_date
\* descending
C10_HistoryAggregates ==
    (out.op = "history" /\ Answered) =>
        LET rows == out.table.rows
            u == out.user_id
        IN
        /\ {rows[i].id : i \in 1..Len(rows)} = {id \in MedIds : Bought(u, id)}
        /\ \A i, j \in 1..Len(rows) : i # j => rows[i].id # rows[j].id
        /\ \A i \in 1..Len(rows) :
              /\ rows[i].name = medicines[rows[i].id].name
              /\ rows[i].total_quantity = QuantityUpTo(u, rows[i].id, Len(purchases))
              /\ \E k \in 1..Len(purchases) :
                    /\ purchases[k].user_id = u
                    /\ purchases[k].medicine_id = rows[i].id
                    /\ purchases[k].purchase_date = rows[i].latest_purchase_date
              /\ \A k \in 1..Len(purchases) :
                    (purchases[k].user_id = u /\ purchases[k].medicine_id = rows[i].id)
                        => purchases[k].purchase_date <= rows[i].latest_purchase_date
        /\ \A i, j \in 1..Len(rows) :
              i < j => rows[i].latest_purchase_date >= rows[j].latest_purchase_date

\* a history of a user who bought one medicine twice, on different dates, while
\* the other user bought the same medicine too
C10_Witness ==
    /\ out.op = "history" /\ Answered
    /\ \E a, b, c \in 1..Len(purchases) :
          /\ a # b
          /\ purchases[a].purchase_date # purchases[b].purchase_date
          /\ purchases[a].user_id = out.user_id
          /\ purchases[b].user_id = out.user_id
          /\ purchases[c].user_id # out.user_id
          /\ purchases[a].medicine_id = purchases[b].medicine_id
          /\ purchases[a].medicine_id = purchases[c].medicine_id
          /\ purchases[a].purchase_date < purchases[b].purchase_date
    /\ Len(out.table.rows) = 1
    /\ out.table.rows[1].total_quantity >= 2

----------------------------------------------------------------------------
(* Claims about generate_recommendations_db (checked under SpecRec) *)

\* the rows the three recommendation queries returned, in concat order
UnionRows ==
    WithSource(out.category, "category") \o WithSource(out.symptom, "symptom")
        \o WithSource(out.popular, "popular")

UnionNames == {UnionRows[i].name : i \in 1..Len(UnionRows)}

\* C2: for a non-empty history the list generate_recommendations_db returns is
\* drawn from the rows of the category, symptom and popular results, holds no
\* name twice, has non-increasing ratings, and has at most 4 entries (all the
\* names of the union when these are at most 4)
C2_RecsDedupedSorted ==
    (out.op = "recommend" /\ ~out.raised) =>
        LET top == out.top IN
        /\ \A i \in 1..Len(top) : \E k \in 1..Len(UnionRows) : UnionRows[k] = top[i]
        /\ \A i, j \in 1..Len(top) : i # j => top[i].name # top[j].name
        /\ \A i, j \in 1..Len(top) : i < j => top[i].rating >= top[j].rating
        /\ Len(top) <= 4
        /\ Len(top) = IF Cardinality(UnionNames) < 4 THEN Cardinality(UnionNames) ELSE 4

\* a returned list cut to 4 out of at least 5 names, with a name that two of
\* the query results share, and with two different ratings in the list
C2_Witness ==
    /\ out.op = "recommend" /\ ~out.raised
    /\ Cardinality(UnionNames) >= 5
    /\ Len(UnionRows) > Cardinality(UnionNames)
    /\ Len(out.top) = 4
    /\ out.top[1].rating > out.top[4].rating

\* all three recommendation queries gave an empty table
AllRecsEmpty ==
    /\ out.op = "recommend"
    /\ IsEmpty(out.category) /\ IsEmpty(out.symptom) /\ IsEmpty(out.popular)

\* C4: with a non-empty history, when all three recommendation queries yield
\* empty tables (no row matches, or execute_query returned its empty table
\* after a caught database error), generate_recommendations_db completes with
\* an empty list and the tab shows "No recommendations generated"
C4_EmptyRecsDegrade ==
    AllRecsEmpty =>
        /\ ~out.raised
        /\ out.top = <<>>
        /\ out.display = "no_recommendations"
        /\ pc # "crashed"

----------------------------------------------------------------------------
(* Claims about the connection and execute_query (checked under Spec) *)

\* C3: whenever the database raises an error while execute_query runs a query
\* (at ping, cursor creation, execute or fetch), execute_query shows an error
\* message and returns an empty table; no exception leaves it
C3_ErrorsCaught ==
    \A i \in 1..Len(execLog) :
        /\ ~execLog[i].raised
        /\ execLog[i].fault # "none" =>
              /\ execLog[i].table = EmptyDF
              /\ execLog[i].msg = "query_error"

\* a step in which the server rejected one statement and the connection broke
\* during the fetch of the next
C3_Witness ==
    \E i, j \in 1..Len(execLog) :
        /\ i < j
        /\ execLog[i].fault = "execute"
        /\ execLog[j].fault = "fetch"
        /\ execLog[j].table = EmptyDF

\* C5: when get_db_connection does not yield a connection (connect raised, or
\* returned a connection that is not connected), main stops the run and no SQL
\* statement is executed in it
C5_FailedConnectionStops ==
    cache = "none" => (pc \in {"start", "stopped"} /\ ~sqlIssued)

\* a run that stopped because get_db_connection gave no connection, before any
\* statement was executed
C5_Witness ==
    /\ pc = "stopped"
    /\ out.op = "connect"
    /\ out.got = "none"
    /\ ~sqlIssued

\* C6: an execute_query call that finds the connection not connected while the
\* server is reachable re-establishes the connection and returns the rows of
\* the query
C6_ReconnectsWhenReachable ==
    \A i \in 1..Len(execLog) :
        (~execLog[i].connected /\ execLog[i].reachable) =>
            /\ execLog[i].msg # "reconnect_failed"
            /\ execLog[i].fault = "none" => execLog[i].table.cols

====
